---------------------------- MODULE Spec2Model ----------------------------
(***************************************************************************)
(* EdDSA over Baby Jubjub with a Poseidon challenge hash                   *)
(* (packages/eddsa-poseidon/src/eddsa-poseidon.ts).                        *)
(*                                                                         *)
(* The source file holds two variants of the module: the legacy one        *)
(* (lines 1-122, local ./babyjub, ./utils) and the current one (lines      *)
(* 123-352, @zk-kit/baby-jubjub, @zk-kit/utils).  signMessage and          *)
(* verifySignature are the same code in both; deriveSecretScalar and       *)
(* derivePublicKey differ and are modelled separately (suffix Legacy).     *)
(*                                                                         *)
(* The curve, the field, the two hashes and the encoding utilities are     *)
(* imported collaborators.  They are modelled over a scaled-down twisted   *)
(* Edwards curve  a*x^2 + y^2 = 1 + d*x^2*y^2  over GF(53) of order        *)
(* 40 = 8 * 5 (complete addition law: a is a square, d is not), with       *)
(* 2-byte half digests instead of 32-byte ones, so that every value fits   *)
(* a machine integer of the model checker.                                 *)
(***************************************************************************)
EXTENDS Integers, Sequences, FiniteSets

(***************************************************************************)
(* Scaled-down curve and buffer parameters.                                *)
(***************************************************************************)
\* the prime of the coordinate field (babyjub `r`)
FieldOrder == 53
\* curve coefficient a
curveA == 4
\* curve coefficient d
curveD == 8
\* number of points of the curve
order == 40
\* order of the subgroup generated by Base8: order >> 3
subOrder == order \div 8
\* the base point of order subOrder (8 * generator)
Base8 == <<42, 33>>
\* the neutral element of the curve
Identity == <<0, 1>>
\* length in bytes of each half of the key digest (32 in the source)
HalfLen == 2
\* length in bytes of a digest (64 in the source)
DigestLen == 3

(***************************************************************************)
(* State: the last call and its outcome, the locals of the last            *)
(* signMessage, the call before a chained call, the EdDSAPoseidon          *)
(* instance with the argument it was constructed from, and the log of the  *)
(* signMessage calls of a run.                                             *)
(***************************************************************************)
VARIABLES pc, call, result, locals, origin, identity, ctorArg, sigLog

vars == <<pc, call, result, locals, origin, identity, ctorArg, sigLog>>

(***************************************************************************)
(* Outcomes of a call: a returned value, a thrown error, or a call that    *)
(* never returns.                                                          *)
(***************************************************************************)
Ret(v) == [kind |-> "return", value |-> v]

Throw(e) == [kind |-> "throw", value |-> e]

Diverge == [kind |-> "diverge", value |-> "none"]

NoCall == [kind |-> "none", value |-> "none"]

(***************************************************************************)
(* JavaScript values: bigint, string (a sequence of characters), boolean,  *)
(* Buffer (a sequence of bytes), array, object.                            *)
(***************************************************************************)
BigIntV(n) == [type |-> "bigint", v |-> n]

StrV(chars) == [type |-> "string", v |-> chars]

BoolV(b) == [type |-> "boolean", v |-> b]

BufV(bytes) == [type |-> "buffer", v |-> bytes]

ArrV(elems) == [type |-> "array", v |-> elems]

ObjV(fields) == [type |-> "object", v |-> fields]

DigitChars == <<"0", "1", "2", "3", "4", "5", "6", "7", "8", "9",
                "a", "b", "c", "d", "e", "f">>

IsDigit(c, base) == \E i \in 1..base : DigitChars[i] = c

DigitVal(c) == (CHOOSE i \in 1..16 : DigitChars[i] = c) - 1

RECURSIVE DecDigits(_)
\* the decimal digits of a natural number, most significant first
DecDigits(n) ==
    IF n < 10 THEN <<DigitChars[n + 1]>>
    ELSE Append(DecDigits(n \div 10), DigitChars[(n % 10) + 1])

\* bigint.toString(): decimal, with a leading "-" for negatives
toString(n) == IF n < 0 THEN <<"-">> \o DecDigits(0 - n) ELSE DecDigits(n)

RECURSIVE DigitsValue(_, _, _)
\* value of a digit sequence in the given base, acc the value read so far
DigitsValue(chars, base, acc) ==
    IF chars = <<>> THEN acc
    ELSE DigitsValue(Tail(chars), base, acc * base + DigitVal(Head(chars)))

AllDigits(chars, base) ==
    /\ Len(chars) > 0
    /\ \A i \in 1..Len(chars) : IsDigit(chars[i], base)

HasHexPrefix(chars) == Len(chars) >= 2 /\ chars[1] = "0" /\ chars[2] = "x"

\* the string-to-bigint grammar of BigInt(string): "", decimal digits with an
\* optional sign, or 0x followed by hex digits; anything else is a SyntaxError
StringToBigInt(chars) ==
    IF chars = <<>> THEN Ret(0)
    ELSE IF HasHexPrefix(chars)
    THEN IF AllDigits(SubSeq(chars, 3, Len(chars)), 16)
         THEN Ret(DigitsValue(SubSeq(chars, 3, Len(chars)), 16, 0))
         ELSE Throw("SyntaxError")
    ELSE IF Head(chars) = "-"
    THEN IF AllDigits(Tail(chars), 10)
         THEN Ret(0 - DigitsValue(Tail(chars), 10, 0))
         ELSE Throw("SyntaxError")
    ELSE IF AllDigits(chars, 10)
    THEN Ret(DigitsValue(chars, 10, 0))
    ELSE Throw("SyntaxError")

\* BigInt(value) of a bigint, a string or a boolean
ToBigInt(val) ==
    IF val.type = "bigint" THEN Ret(val.v)
    ELSE IF val.type = "string" THEN StringToBigInt(val.v)
    ELSE IF val.type = "boolean" THEN Ret(IF val.v THEN 1 ELSE 0)
    ELSE Throw("TypeError")

\* BigInt(value) where the caller has established that it cannot throw
BigInt(val) == ToBigInt(val).value

\* a string that BigInt() parses
isStringifiedBigint(val) ==
    val.type = "string" /\ StringToBigInt(val.v).kind = "return"

\* a string of hexadecimal digits with the 0x prefix
isHexadecimal(val) ==
    /\ val.type = "string"
    /\ HasHexPrefix(val.v)
    /\ AllDigits(SubSeq(val.v, 3, Len(val.v)), 16)

\* a bigint or a string holding one
isBigNumberish(val) == val.type = "bigint" \/ isStringifiedBigint(val)

(***************************************************************************)
(* F1Field: arithmetic modulo a prime q.                                   *)
(***************************************************************************)
\* F1Field.e: the representative of x in 0..q-1
Fe(q, x) == x % q

Fadd(q, x, y) == (x + y) % q

Fsub(q, x, y) == (x - y) % q

Fmul(q, x, y) == (x * y) % q

Fneg(q, x) == (q - x) % q

\* the inverses of the coordinate field, computed once; zero has no inverse
\* (F1Field.inv throws), which no point of the curve leads to
InvTable ==
    [x \in 0..(FieldOrder - 1) |->
        IF x = 0 THEN 0
        ELSE CHOOSE y \in 1..(FieldOrder - 1) : (x * y) % FieldOrder = 1]

Fdiv(x, y) == Fmul(FieldOrder, x, InvTable[y % FieldOrder])

NullRes == [kind |-> "null", value |-> "none"]

\* F1Field.sqrt: null for a non-residue, else the root not above q >> 1
Fsqrt(x) ==
    LET roots == {y \in 0..(FieldOrder \div 2) : (y * y) % FieldOrder = x}
    IN  IF roots = {} THEN NullRes ELSE Ret(CHOOSE y \in roots : TRUE)

(***************************************************************************)
(* Baby Jubjub: points are pairs <<x, y>> of field elements.               *)
(***************************************************************************)
\* twisted Edwards addition
addPoint(p1, p2) ==
    LET beta == Fmul(FieldOrder, p1[1], p2[2])
        gamma == Fmul(FieldOrder, p1[2], p2[1])
        delta == Fmul(FieldOrder,
                      Fsub(FieldOrder, p1[2], Fmul(FieldOrder, curveA, p1[1])),
                      Fadd(FieldOrder, p2[1], p2[2]))
        tau == Fmul(FieldOrder, beta, gamma)
        dtau == Fmul(FieldOrder, curveD, tau)
        x3 == Fdiv(Fadd(FieldOrder, beta, gamma), Fadd(FieldOrder, 1, dtau))
        y3 == Fdiv(Fadd(FieldOrder, delta,
                        Fsub(FieldOrder, Fmul(FieldOrder, curveA, beta), gamma)),
                   Fsub(FieldOrder, 1, dtau))
    IN  <<x3, y3>>

RECURSIVE mulLoop(_, _, _)
\* the double-and-add loop: while (rem != 0) { if odd(rem) res += exp;
\* exp += exp; rem >>= 1 }.  The shift is arithmetic, so a negative rem
\* settles at -1 and the loop never ends.
mulLoop(res, exp, rem) ==
    IF rem = 0 THEN Ret(res)
    ELSE IF rem \div 2 = rem THEN Diverge
    ELSE mulLoop(IF rem % 2 = 1 THEN addPoint(res, exp) ELSE res,
                 addPoint(exp, exp),
                 rem \div 2)

\* scalar multiplication e * base
mulPointEscalar(base, e) == mulLoop(Identity, base, e)

\* the curve equation on the two coordinates of an array of two bignumberish
inCurve(pt) ==
    LET x1 == BigInt(pt.v[1])
        y1 == BigInt(pt.v[2])
        x2 == Fmul(FieldOrder, x1, x1)
        y2 == Fmul(FieldOrder, y1, y1)
    IN  Fadd(FieldOrder, Fmul(FieldOrder, curveA, x2), y2)
          = Fadd(FieldOrder, 1, Fmul(FieldOrder, Fmul(FieldOrder, x2, y2), curveD))

(***************************************************************************)
(* Buffers: sequences of bytes.                                            *)
(***************************************************************************)
RECURSIVE leBufferToBigInt(_)
\* the little-endian integer of a buffer
leBufferToBigInt(buff) ==
    IF buff = <<>> THEN 0
    ELSE Head(buff) + 256 * leBufferToBigInt(Tail(buff))

RECURSIVE leBigIntToBuffer(_, _)
\* the little-endian buffer of the given size of a natural number
leBigIntToBuffer(n, size) ==
    IF size = 0 THEN <<>>
    ELSE <<n % 256>> \o leBigIntToBuffer(n \div 256, size - 1)

\* clear the 3 low bits of the first byte, clear the top bit and set the
\* second-highest bit of the last byte
pruneBuffer(buff) ==
    LET n == Len(buff)
        first == [buff EXCEPT ![1] = @ - (@ % 8)]
        cleared == [first EXCEPT ![n] = @ % 128]
    IN  [cleared EXCEPT ![n] = IF (@ \div 64) % 2 = 1 THEN @ ELSE @ + 64]

\* scalar.shiftRight
shiftRight(x, n) == x \div (2 ^ n)

RECURSIVE Absorb(_, _)
\* the running state of the key-derivation hash over the bytes of a buffer
Absorb(buff, h) ==
    IF buff = <<>> THEN h
    ELSE Absorb(Tail(buff), (h * 31 + Head(buff) + 1) % 251)

\* the key-derivation hash: a digest of DigestLen bytes
blake(buff) ==
    LET h == Absorb(buff, 7 + Len(buff))
    IN  [i \in 1..DigestLen |-> ((h + 3 * i) * (h + 5 * i + 1) + i) % 256]

RECURSIVE Sponge(_, _, _)
\* the running state of the challenge hash over its inputs
Sponge(inputs, i, h) ==
    IF i > Len(inputs) THEN h
    ELSE LET t == (h + (inputs[i] % FieldOrder) + i) % FieldOrder
         IN  Sponge(inputs, i + 1, (t * t * t) % FieldOrder)

\* the challenge hash of five integers: one field element
poseidon5(inputs) == Sponge(inputs, 1, 1)

(***************************************************************************)
(* Input checks (utils).                                                   *)
(***************************************************************************)
\* the private key as a buffer, or InvalidPrivateKey
checkPrivateKey(privateKey) ==
    IF privateKey.type = "buffer"
    THEN IF Len(privateKey.v) \in 1..HalfLen
         THEN Ret(privateKey.v) ELSE Throw("InvalidPrivateKey")
    ELSE IF isBigNumberish(privateKey)
    THEN IF BigInt(privateKey) >= 0 /\ BigInt(privateKey) < 256 ^ HalfLen
         THEN Ret(leBigIntToBuffer(BigInt(privateKey), HalfLen))
         ELSE Throw("InvalidPrivateKey")
    ELSE Throw("InvalidPrivateKey")

\* the message as an integer below the field modulus, or InvalidMessage
checkMessage(message) ==
    IF isBigNumberish(message)
    THEN IF BigInt(message) >= 0 /\ BigInt(message) < FieldOrder
         THEN Ret(BigInt(message)) ELSE Throw("InvalidMessage")
    ELSE Throw("InvalidMessage")

\* an array of two bignumberish values
isPoint(pt) ==
    /\ pt.type = "array"
    /\ Len(pt.v) = 2
    /\ isBigNumberish(pt.v[1])
    /\ isBigNumberish(pt.v[2])

\* an object with a point R8 and a bignumberish S
isSignature(sig) ==
    /\ sig.type = "object"
    /\ "R8" \in DOMAIN sig.v
    /\ "S" \in DOMAIN sig.v
    /\ isPoint(sig.v.R8)
    /\ isBigNumberish(sig.v.S)

\* the integer pair of a well-formed point value
PointOf(pt) == <<BigInt(pt.v[1]), BigInt(pt.v[2])>>

\* a point as the array of the decimal strings of its coordinates
PointStrings(P) == ArrV(<<StrV(toString(P[1])), StrV(toString(P[2]))>>)

(***************************************************************************)
(* Compressed points (babyjub packPoint / unpackPoint).                    *)
(***************************************************************************)
RECURSIVE MinimalBuffer(_)
\* the little-endian buffer of a natural number, as short as it can be
MinimalBuffer(n) ==
    IF n < 256 THEN <<n>> ELSE <<n % 256>> \o MinimalBuffer(n \div 256)

\* the y coordinate, with the top bit of the last byte set when x > r >> 1
packPoint(P) ==
    LET buffer == leBigIntToBuffer(P[2], HalfLen)
    IN  IF P[1] > shiftRight(FieldOrder, 1)
        THEN leBufferToBigInt([buffer EXCEPT ![HalfLen] = @ + 128])
        ELSE leBufferToBigInt(buffer)

\* the point of a compressed point, or null
unpackPoint(packedPoint) ==
    LET raw == MinimalBuffer(packedPoint)
        sign == Len(raw) >= HalfLen /\ raw[HalfLen] >= 128
        buffer == IF sign THEN [raw EXCEPT ![HalfLen] = @ - 128] ELSE raw
        y == leBufferToBigInt(buffer)
        y2 == Fmul(FieldOrder, y, y)
        x == Fsqrt(Fdiv(Fsub(FieldOrder, 1, y2),
                        Fsub(FieldOrder, curveA, Fmul(FieldOrder, curveD, y2))))
    IN  IF y > FieldOrder THEN NullRes
        ELSE IF x.kind = "null" THEN NullRes
        ELSE Ret(<<IF sign THEN Fneg(FieldOrder, x.value) ELSE x.value, y>>)

(***************************************************************************)
(* The module's functions.                                                 *)
(***************************************************************************)
\* legacy variant: the pruned little-endian integer, not shifted, a bigint
deriveSecretScalarLegacy(privateKey) ==
    LET pk == checkPrivateKey(privateKey)
    IN  IF pk.kind = "throw" THEN pk
        ELSE LET hash == blake(pk.value)
             IN  Ret(BigIntV(leBufferToBigInt(
                        pruneBuffer(SubSeq(hash, 1, HalfLen)))))

\* legacy variant: Base8 * (s >> 3), the coordinates as decimal strings
derivePublicKeyLegacy(privateKey) ==
    LET s == deriveSecretScalarLegacy(privateKey)
    IN  IF s.kind = "throw" THEN s
        ELSE LET publicKey ==
                     mulPointEscalar(Base8, shiftRight(BigInt(s.value), 3))
             IN  IF publicKey.kind = "diverge" THEN publicKey
                 ELSE Ret(PointStrings(publicKey.value))

\* the pruned little-endian integer shifted right by 3, a decimal string
deriveSecretScalar(privateKey) ==
    LET pk == checkPrivateKey(privateKey)
    IN  IF pk.kind = "throw" THEN pk
        ELSE LET hash0 == blake(pk.value)
                 hash1 == SubSeq(hash0, 1, HalfLen)
                 hash2 == pruneBuffer(hash1)
             IN  Ret(StrV(toString(shiftRight(leBufferToBigInt(hash2), 3))))

\* derivePublicKey as it was before deriveSecretScalar shifted: the scalar
\* is shifted once more
derivePublicKeyShiftsAgain(privateKey) ==
    LET s == deriveSecretScalar(privateKey)
    IN  IF s.kind = "throw" THEN s
        ELSE LET publicKey ==
                     mulPointEscalar(Base8, shiftRight(BigInt(s.value), 3))
             IN  IF publicKey.kind = "diverge" THEN publicKey
                 ELSE Ret(PointStrings(publicKey.value))

\* Base8 * BigInt(deriveSecretScalar), the coordinates as decimal strings
derivePublicKey(privateKey) ==
    LET s == deriveSecretScalar(privateKey)
    IN  IF s.kind = "throw" THEN s
        ELSE LET publicKey == mulPointEscalar(Base8, BigInt(s.value))
             IN  IF publicKey.kind = "diverge" THEN publicKey
                 ELSE Ret(PointStrings(publicKey.value))

\* the local values of signMessage once both inputs are checked; the scalars
\* are naturals, so the two multiplications return
signLocals(privateKey, message) ==
    LET hash == blake(privateKey)
        sBuff == pruneBuffer(SubSeq(hash, 1, HalfLen))
        s == leBufferToBigInt(sBuff)
        A == mulPointEscalar(Base8, shiftRight(s, 3)).value
        msgBuff == leBigIntToBuffer(message, HalfLen)
        rBuff == blake(SubSeq(hash, HalfLen + 1, DigestLen) \o msgBuff)
        r == Fe(subOrder, leBufferToBigInt(rBuff))
        R8 == mulPointEscalar(Base8, r).value
        hm == poseidon5(<<R8[1], R8[2], A[1], A[2], message>>)
        S == Fadd(subOrder, r, Fmul(subOrder, hm, s))
    IN  [s |-> s, A |-> A, r |-> r, R8 |-> R8, hm |-> hm, S |-> S]

\* signMessage with a nonce that also depends on the calls made before
signMessageCounts(privateKey, message) ==
    LET pk == checkPrivateKey(privateKey)
    IN  IF pk.kind = "throw" THEN pk
        ELSE LET m == checkMessage(message)
             IN  IF m.kind = "throw" THEN m
                 ELSE LET l == signLocals(pk.value, m.value)
                          r == Fadd(subOrder, l.r, Len(sigLog))
                          R8 == mulPointEscalar(Base8, r).value
                          hm == poseidon5(<<R8[1], R8[2], l.A[1], l.A[2],
                                            m.value>>)
                          S == Fadd(subOrder, r, Fmul(subOrder, hm, l.s))
                      IN  Ret(ObjV([R8 |-> PointStrings(R8),
                                    S |-> StrV(toString(S))]))

\* the signature {R8, S} as decimal strings
signMessage(privateKey, message) ==
    LET pk == checkPrivateKey(privateKey)
    IN  IF pk.kind = "throw" THEN pk
        ELSE LET m == checkMessage(message)
             IN  IF m.kind = "throw" THEN m
                 ELSE LET l == signLocals(pk.value, m.value)
                      IN  Ret(ObjV([R8 |-> PointStrings(l.R8),
                                    S |-> StrV(toString(l.S))]))

\* the guards of verifySignature: TRUE when the call returns false at once
verifyRejects(signature, publicKey) ==
    IF ~isPoint(publicKey) THEN TRUE
    ELSE IF ~isSignature(signature) THEN TRUE
    ELSE IF ~inCurve(signature.v.R8) THEN TRUE
    ELSE IF ~inCurve(publicKey) THEN TRUE
    ELSE BigInt(signature.v.S) >= subOrder

\* verifySignature without the cofactor: S * Base8 = R8 + hm * publicKey
verifySignatureNoCofactor(message, signature, publicKey) ==
    IF verifyRejects(signature, publicKey) THEN Ret(FALSE)
    ELSE LET m == checkMessage(message)
         IN  IF m.kind = "throw" THEN m
             ELSE LET R8 == PointOf(signature.v.R8)
                      S == BigInt(signature.v.S)
                      hm == poseidon5(<<R8[1], R8[2], PointOf(publicKey)[1],
                                        PointOf(publicKey)[2], m.value>>)
                      pLeft == mulPointEscalar(Base8, S)
                      pRight0 == mulPointEscalar(PointOf(publicKey), hm)
                  IN  IF pLeft.kind = "diverge" THEN Diverge
                      ELSE IF pRight0.kind = "diverge" THEN Diverge
                      ELSE Ret(pLeft.value = addPoint(R8, pRight0.value))

\* S * Base8 = R8 + (8 * hm) * publicKey, after the guards
verifySignature(message, signature, publicKey) ==
    IF verifyRejects(signature, publicKey) THEN Ret(FALSE)
    ELSE LET m == checkMessage(message)
         IN  IF m.kind = "throw" THEN m
             ELSE LET R8 == <<BigInt(signature.v.R8.v[1]),
                              BigInt(signature.v.R8.v[2])>>
                      S == BigInt(signature.v.S)
                      _publicKey == <<BigInt(publicKey.v[1]),
                                      BigInt(publicKey.v[2])>>
                      hm == poseidon5(<<R8[1], R8[2], _publicKey[1],
                                        _publicKey[2], m.value>>)
                      pLeft == mulPointEscalar(Base8, S)
                      pRight0 == mulPointEscalar(_publicKey, hm * 8)
                  IN  IF pLeft.kind = "diverge" THEN Diverge
                      ELSE IF pRight0.kind = "diverge" THEN Diverge
                      ELSE LET pRight == addPoint(R8, pRight0.value)
                           IN  Ret(pLeft.value[1] = pRight[1]
                                     /\ pLeft.value[2] = pRight[2])

\* packPublicKey with the coordinates taken in the wrong order
packPublicKeySwapped(publicKey) ==
    IF ~isPoint(publicKey) THEN Throw("InvalidPublicKey")
    ELSE IF ~inCurve(publicKey) THEN Throw("InvalidPublicKey")
    ELSE Ret(StrV(toString(packPoint(<<BigInt(publicKey.v[2]),
                                       BigInt(publicKey.v[1])>>))))

\* the compressed public key as a decimal string
packPublicKey(publicKey) ==
    IF ~isPoint(publicKey) THEN Throw("InvalidPublicKey")
    ELSE IF ~inCurve(publicKey) THEN Throw("InvalidPublicKey")
    ELSE Ret(StrV(toString(packPoint(<<BigInt(publicKey.v[1]),
                                       BigInt(publicKey.v[2])>>))))

\* unpackPublicKey with a type check that lets every string through
unpackPublicKeyAnyString(publicKey) ==
    IF publicKey.type # "bigint" /\ publicKey.type # "string"
    THEN Throw("InvalidType")
    ELSE IF ToBigInt(publicKey).kind = "throw" THEN ToBigInt(publicKey)
    ELSE LET unpackedPublicKey == unpackPoint(BigInt(publicKey))
         IN  IF unpackedPublicKey.kind = "null" THEN Throw("InvalidPublicKey")
             ELSE Ret(PointStrings(unpackedPublicKey.value))

\* the point of a compressed public key, the coordinates as decimal strings
unpackPublicKey(publicKey) ==
    IF /\ publicKey.type # "bigint"
       /\ (publicKey.type # "string" \/ ~isStringifiedBigint(publicKey))
       /\ (publicKey.type # "string" \/ ~isHexadecimal(publicKey))
    THEN Throw("InvalidType")
    ELSE LET unpackedPublicKey == unpackPoint(BigInt(publicKey))
         IN  IF unpackedPublicKey.kind = "null" THEN Throw("InvalidPublicKey")
             ELSE Ret(PointStrings(unpackedPublicKey.value))

(***************************************************************************)
(* The EdDSAPoseidon class.                                                *)
(***************************************************************************)
NoIdentity ==
    [constructed |-> FALSE, privateKey |-> BoolV(FALSE),
     secretScalar |-> BoolV(FALSE), publicKey |-> BoolV(FALSE),
     packedPublicKey |-> BoolV(FALSE)]

\* the constructor, keeping a secret scalar that is shifted once more
EdDSAPoseidonShiftsAgain(privateKey) ==
    LET secretScalar == deriveSecretScalar(privateKey)
        publicKey == derivePublicKey(privateKey)
    IN  IF secretScalar.kind # "return" THEN secretScalar
        ELSE IF publicKey.kind # "return" THEN publicKey
        ELSE LET packedPublicKey == packPublicKey(publicKey.value)
             IN  IF packedPublicKey.kind # "return" THEN packedPublicKey
                 ELSE Ret([constructed |-> TRUE,
                           privateKey |-> privateKey,
                           secretScalar |->
                               StrV(toString(shiftRight(
                                   BigInt(secretScalar.value), 3))),
                           publicKey |-> publicKey.value,
                           packedPublicKey |-> packedPublicKey.value])

\* the constructor: the fields of the new instance, or the error of the first
\* derivation that throws
EdDSAPoseidon(privateKey) ==
    LET secretScalar == deriveSecretScalar(privateKey)
        publicKey == derivePublicKey(privateKey)
    IN  IF secretScalar.kind # "return" THEN secretScalar
        ELSE IF publicKey.kind # "return" THEN publicKey
        ELSE LET packedPublicKey == packPublicKey(publicKey.value)
             IN  IF packedPublicKey.kind # "return" THEN packedPublicKey
                 ELSE Ret([constructed |-> TRUE,
                           privateKey |-> privateKey,
                           secretScalar |-> secretScalar.value,
                           publicKey |-> publicKey.value,
                           packedPublicKey |-> packedPublicKey.value])

\* the method signMessage of an instance
instanceSignMessage(this, message) == signMessage(this.privateKey, message)

\* the method verifySignature of an instance
instanceVerifySignature(this, message, signature) ==
    verifySignature(message, signature, this.publicKey)

(***************************************************************************)
(* Bounds of the inputs.                                                   *)
(***************************************************************************)
\* private keys 0..MaxKey, as bigints, decimal strings and buffers
MaxKey == 2
\* messages 0..MaxMsg, as bigints and decimal strings
MaxMsg == 1
\* response scalars from -SMargin to subOrder - 1 + SMargin
SMargin == 2
\* compressed points 0..MaxPacked, with and without the sign bit
MaxPacked == 56
\* calls of signMessage in one run of the determinism specification
MaxCalls == 3

(***************************************************************************)
(* Inputs.                                                                 *)
(***************************************************************************)
RECURSIVE HexDigits(_)
HexDigits(n) ==
    IF n < 16 THEN <<DigitChars[n + 1]>>
    ELSE Append(HexDigits(n \div 16), DigitChars[(n % 16) + 1])

HexString(n) == StrV(<<"0", "x">> \o HexDigits(n))

DecString(n) == StrV(toString(n))

\* the kinds of private key: the first five are accepted by checkPrivateKey
ValidKeyKinds == {"bigint", "decimal", "hex", "buffer", "short"}

InvalidKeyKinds == {"boolean", "long", "negative", "wide"}

KeyKinds == ValidKeyKinds \cup InvalidKeyKinds

PrivateKey(kind, n) ==
    CASE kind = "bigint" -> BigIntV(n)
      [] kind = "decimal" -> DecString(n)
      [] kind = "hex" -> HexString(255 - n)
      [] kind = "buffer" -> BufV(<<n, 255 - n>>)
      [] kind = "short" -> BufV(<<7 + n>>)
      [] kind = "boolean" -> BoolV(n % 2 = 0)
      [] kind = "long" -> BufV([i \in 1..(HalfLen + 1) |-> n])
      [] kind = "negative" -> BigIntV(0 - 1 - n)
      [] kind = "wide" -> BigIntV(256 ^ HalfLen + n)

\* the kinds of message: the first three are accepted by checkMessage
ValidMessageKinds == {"bigint", "decimal", "top"}

InvalidMessageKinds == {"over", "boolean", "negative"}

MessageKinds == ValidMessageKinds \cup InvalidMessageKinds

Message(kind, n) ==
    CASE kind = "bigint" -> BigIntV(n)
      [] kind = "decimal" -> DecString(n)
      [] kind = "top" -> BigIntV(FieldOrder - 1 - n)
      [] kind = "over" -> BigIntV(FieldOrder + n)
      [] kind = "boolean" -> BoolV(n % 2 = 0)
      [] kind = "negative" -> BigIntV(0 - 1 - n)

FieldElements == 0..(FieldOrder - 1)

OnCurve(P) ==
    (curveA * P[1] * P[1] + P[2] * P[2]) % FieldOrder
      = (1 + curveD * P[1] * P[1] * P[2] * P[2]) % FieldOrder

\* the points of the curve
CurvePoints == {P \in FieldElements \X FieldElements : OnCurve(P)}

\* pairs of field elements that are not points of the curve
OffCurvePoints == {<<1, 1>>, <<0, 0>>}

PointBigInts(P) == ArrV(<<BigIntV(P[1]), BigIntV(P[2])>>)

\* values that are not an array of two bignumberish
MalformedPointKinds == {"boolean", "one", "badY"}

MalformedPoint(kind) ==
    CASE kind = "boolean" -> BoolV(TRUE)
      [] kind = "one" -> ArrV(<<DecString(0)>>)
      [] kind = "badY" -> ArrV(<<DecString(0), BoolV(TRUE)>>)

\* the values handed to packPublicKey: every point of the curve as decimal
\* strings and as bigints, pairs off the curve, and malformed values
PackInputKinds == {"strings", "bigints", "offcurve"} \cup MalformedPointKinds

PackInputPoints(kind) ==
    IF kind \in {"strings", "bigints"} THEN CurvePoints
    ELSE IF kind = "offcurve" THEN OffCurvePoints
    ELSE {Identity}

PackInput(kind, P) ==
    CASE kind = "strings" -> PointStrings(P)
      [] kind = "bigints" -> PointBigInts(P)
      [] kind = "offcurve" -> PointStrings(P)
      [] OTHER -> MalformedPoint(kind)

SRange == (0 - SMargin)..(subOrder - 1 + SMargin)

SigStrings(P, S) == ObjV([R8 |-> PointStrings(P), S |-> DecString(S)])

SigBigInts(P, S) == ObjV([R8 |-> PointBigInts(P), S |-> BigIntV(S)])

\* values that are not an object with a point R8 and a bignumberish S
MalformedSignatureKinds == {"boolean", "noS", "noR8", "badR8", "badS"}

MalformedSignature(kind) ==
    CASE kind = "boolean" -> BoolV(TRUE)
      [] kind = "noS" -> ObjV([R8 |-> PointStrings(Base8)])
      [] kind = "noR8" -> ObjV([S |-> DecString(1)])
      [] kind = "badR8" -> ObjV([R8 |-> BoolV(TRUE), S |-> DecString(1)])
      [] kind = "badS" -> ObjV([R8 |-> PointStrings(Base8), S |-> BoolV(TRUE)])

\* the signatures handed to verifySignature: every point of the curve and
\* two pairs off it as R8 with every S of SRange, as decimal strings; Base8
\* with every S of SRange as bigints; and the malformed values
SignatureKinds == {"strings", "bigints"} \cup MalformedSignatureKinds

SignaturePoints(kind) ==
    IF kind = "strings" THEN CurvePoints \cup OffCurvePoints ELSE {Base8}

SignatureScalars(kind) == IF kind \in {"strings", "bigints"} THEN SRange ELSE {1}

Signature(kind, P, S) ==
    CASE kind = "strings" -> SigStrings(P, S)
      [] kind = "bigints" -> SigBigInts(P, S)
      [] OTHER -> MalformedSignature(kind)

\* the messages handed to verifySignature
VerifyMessageKinds == {"bigint", "decimal", "over", "boolean"}

\* the public keys handed to verifySignature: derived keys, a point of order
\* 2, a pair off the curve and a malformed value
PublicKeyKinds == {"derived", "order2", "offcurve", "boolean"}

PublicKeyNumbers(kind) == IF kind = "derived" THEN 0..MaxKey ELSE {0}

PublicKey(kind, n) ==
    CASE kind = "derived" -> derivePublicKey(BigIntV(n)).value
      [] kind = "order2" -> PointBigInts(<<0, FieldOrder - 1>>)
      [] kind = "offcurve" -> PointStrings(<<1, 1>>)
      [] kind = "boolean" -> BoolV(TRUE)

\* the kinds of value handed to unpackPublicKey
PackedKinds == {"bigint", "decimal", "hex", "boolean", "word", "buffer"}

PackedNumbers ==
    (0..MaxPacked)
      \cup {128 * (256 ^ (HalfLen - 1)) + y : y \in 0..MaxPacked}
      \cup {256 + 5, 256 ^ HalfLen + 9}

PackedValue(kind, n) ==
    CASE kind = "bigint" -> BigIntV(n)
      [] kind = "decimal" -> DecString(n)
      [] kind = "hex" -> HexString(n)
      [] kind = "boolean" -> BoolV(n % 2 = 1)
      [] kind = "word" -> StrV(<<"k", "e", "y">> \o toString(n))
      [] kind = "buffer" -> BufV(MinimalBuffer(n))

NoCallRec == [op |-> "none", variant |-> "none", args |-> <<>>, tag |-> "none"]

NoLocals ==
    [s |-> 0, A |-> Identity, r |-> 0, R8 |-> Identity, hm |-> 0, S |-> 0]

CallRec(op, variant, args, tag) ==
    [op |-> op, variant |-> variant, args |-> args, tag |-> tag]

Init ==
    /\ pc = "idle"
    /\ call = NoCallRec
    /\ result = NoCall
    /\ locals = NoLocals
    /\ origin = NoCallRec
    /\ identity = NoIdentity
    /\ ctorArg = BoolV(FALSE)
    /\ sigLog = <<>>

\* the outcome of a call of a free function
Returns(c, res, loc) ==
    /\ pc' = "returned"
    /\ call' = c
    /\ result' = res
    /\ locals' = loc
    /\ UNCHANGED <<origin, identity, ctorArg, sigLog>>

DeriveSecretScalar ==
    /\ pc = "idle"
    /\ \E kind \in KeyKinds, n \in 0..MaxKey :
        LET k == PrivateKey(kind, n)
        IN  Returns(CallRec("deriveSecretScalar", "current", <<k>>, kind),
                    deriveSecretScalar(k), NoLocals)

DeriveSecretScalarLegacy ==
    /\ pc = "idle"
    /\ \E kind \in KeyKinds, n \in 0..MaxKey :
        LET k == PrivateKey(kind, n)
        IN  Returns(CallRec("deriveSecretScalar", "legacy", <<k>>, kind),
                    deriveSecretScalarLegacy(k), NoLocals)

DerivePublicKey ==
    /\ pc = "idle"
    /\ \E kind \in KeyKinds, n \in 0..MaxKey :
        LET k == PrivateKey(kind, n)
        IN  Returns(CallRec("derivePublicKey", "current", <<k>>, kind),
                    derivePublicKey(k), NoLocals)

DerivePublicKeyLegacy ==
    /\ pc = "idle"
    /\ \E kind \in KeyKinds, n \in 0..MaxKey :
        LET k == PrivateKey(kind, n)
        IN  Returns(CallRec("derivePublicKey", "legacy", <<k>>, kind),
                    derivePublicKeyLegacy(k), NoLocals)

\* the locals signMessage holds when it returns
LocalsOf(k, m) ==
    IF signMessage(k, m).kind = "return"
    THEN signLocals(checkPrivateKey(k).value, checkMessage(m).value)
    ELSE NoLocals

SignMessage ==
    /\ pc = "idle"
    /\ \E kkind \in KeyKinds, n \in 0..MaxKey,
       mkind \in MessageKinds, i \in 0..MaxMsg :
        LET k == PrivateKey(kkind, n)
            m == Message(mkind, i)
        IN  Returns(CallRec("signMessage", "current", <<k, m>>,
                            <<kkind, mkind>>),
                    signMessage(k, m), LocalsOf(k, m))

VerifySignature ==
    /\ pc = "idle"
    /\ \E mkind \in VerifyMessageKinds, i \in 0..MaxMsg,
       skind \in SignatureKinds, pkind \in PublicKeyKinds :
        \E P \in SignaturePoints(skind), S \in SignatureScalars(skind),
           n \in PublicKeyNumbers(pkind) :
            LET m == Message(mkind, i)
                sig == Signature(skind, P, S)
                pk == PublicKey(pkind, n)
            IN  Returns(CallRec("verifySignature", "current", <<m, sig, pk>>,
                                <<mkind, skind, pkind>>),
                        verifySignature(m, sig, pk), NoLocals)

PackPublicKey ==
    /\ pc = "idle"
    /\ \E kind \in PackInputKinds :
        \E P \in PackInputPoints(kind) :
            Returns(CallRec("packPublicKey", "current", <<PackInput(kind, P)>>,
                            kind),
                    packPublicKey(PackInput(kind, P)), NoLocals)

UnpackPublicKey ==
    /\ pc = "idle"
    /\ \E kind \in PackedKinds, n \in PackedNumbers :
        Returns(CallRec("unpackPublicKey", "current",
                        <<PackedValue(kind, n)>>, <<kind, n>>),
                unpackPublicKey(PackedValue(kind, n)), NoLocals)

\* a call whose arguments come from the call that has just returned
Chained(c, res) ==
    /\ pc = "returned"
    /\ result.kind = "return"
    /\ pc' = "chained"
    /\ origin' = call
    /\ call' = c
    /\ result' = res
    /\ UNCHANGED <<locals, identity, ctorArg, sigLog>>

\* verifySignature(m, signMessage(k, m), derivePublicKey(k))
VerifySigned ==
    /\ call.op = "signMessage"
    /\ derivePublicKey(call.args[1]).kind = "return"
    /\ Chained(CallRec("verifySignature", "current",
                       <<call.args[2], result.value,
                         derivePublicKey(call.args[1]).value>>, "signed"),
               verifySignature(call.args[2], result.value,
                               derivePublicKey(call.args[1]).value))

\* unpackPublicKey(packPublicKey(P))
UnpackPacked ==
    /\ call.op = "packPublicKey"
    /\ Chained(CallRec("unpackPublicKey", "current", <<result.value>>,
                       "packed"),
               unpackPublicKey(result.value))

Next ==
    \/ DeriveSecretScalar
    \/ DeriveSecretScalarLegacy
    \/ DerivePublicKey
    \/ DerivePublicKeyLegacy
    \/ SignMessage
    \/ VerifySignature
    \/ PackPublicKey
    \/ UnpackPublicKey
    \/ VerifySigned
    \/ UnpackPacked

Spec == Init /\ [][Next]_vars

(***************************************************************************)
(* An EdDSAPoseidon instance: constructed once, then used for any number   *)
(* of signMessage and verifySignature calls.                               *)
(***************************************************************************)
\* the kinds of key and of message of the calls that are repeated
RepeatKeyKinds == {"bigint", "buffer", "boolean"}

RepeatMessageKinds == {"bigint", "over"}

\* the kinds of private key an instance is constructed from
ConstructKeyKinds == {"bigint", "decimal", "buffer", "boolean"}

Construct ==
    /\ pc = "idle"
    /\ \E kind \in ConstructKeyKinds, n \in 0..MaxKey :
        LET k == PrivateKey(kind, n)
            made == EdDSAPoseidon(k)
        IN  /\ pc' = IF made.kind = "return" THEN "constructed" ELSE "returned"
            /\ call' = CallRec("constructor", "current", <<k>>, kind)
            /\ result' = made
            /\ identity' = IF made.kind = "return" THEN made.value ELSE identity
            /\ ctorArg' = k
            /\ UNCHANGED <<locals, origin, sigLog>>

\* a method call: the methods assign no field of the instance
MethodReturns(c, res) ==
    /\ call' = c
    /\ result' = res
    /\ UNCHANGED <<pc, locals, origin, identity, ctorArg, sigLog>>

InstanceSignMessage ==
    /\ pc = "constructed"
    /\ \E mkind \in MessageKinds, i \in 0..1 :
        LET m == Message(mkind, i)
        IN  MethodReturns(CallRec("instance.signMessage", "current", <<m>>,
                                  mkind),
                          instanceSignMessage(identity, m))

\* the signatures handed to the method verifySignature: the instance's own
\* signature of message i, the same with S + 1, as bigints, and malformed
InstanceSignatureKinds == {"own", "tampered", "bigints"} \cup MalformedSignatureKinds

InstanceSignature(kind, this, i) ==
    LET l == signLocals(checkPrivateKey(this.privateKey).value, i)
    IN  CASE kind = "own" -> SigStrings(l.R8, l.S)
          [] kind = "tampered" -> SigStrings(l.R8, l.S + 1)
          [] kind = "bigints" -> SigBigInts(l.R8, l.S)
          [] OTHER -> MalformedSignature(kind)

InstanceVerifySignature ==
    /\ pc = "constructed"
    /\ \E mkind \in RepeatMessageKinds, i \in 0..1,
          skind \in InstanceSignatureKinds, j \in 0..1 :
        LET m == Message(mkind, i)
            sig == InstanceSignature(skind, identity, j)
        IN  MethodReturns(CallRec("instance.verifySignature", "current",
                                  <<m, sig>>, <<mkind, skind>>),
                          instanceVerifySignature(identity, m, sig))

NextIdentity ==
    \/ Construct
    \/ InstanceSignMessage
    \/ InstanceVerifySignature

SpecIdentity == Init /\ [][NextIdentity]_vars

(***************************************************************************)
(* Repeated calls of signMessage, each logged with its arguments, with     *)
(* calls of derivePublicKey in between.                                    *)
(***************************************************************************)
SignMessageAgain ==
    /\ Len(sigLog) < MaxCalls
    /\ \E kkind \in RepeatKeyKinds, mkind \in RepeatMessageKinds, n \in 0..1 :
        LET k == PrivateKey(kkind, 0)
            m == Message(mkind, n)
            res == signMessage(k, m)
        IN  /\ call' = CallRec("signMessage", "current", <<k, m>>,
                               <<kkind, mkind>>)
            /\ result' = res
            /\ sigLog' = Append(sigLog, [key |-> <<kkind, 0>>,
                                         message |-> <<mkind, n>>,
                                         outcome |-> res])
            /\ UNCHANGED <<pc, locals, origin, identity, ctorArg>>

DeriveBetween ==
    /\ call.op = "signMessage"
    /\ \E n \in 0..1 :
        /\ call' = CallRec("derivePublicKey", "current", <<BigIntV(n)>>,
                           "bigint")
        /\ result' = derivePublicKey(BigIntV(n))
        /\ UNCHANGED <<pc, locals, origin, identity, ctorArg, sigLog>>

NextRepeat ==
    \/ SignMessageAgain
    \/ DeriveBetween

SpecRepeat == Init /\ [][NextRepeat]_vars

(***************************************************************************)
(* Properties.                                                             *)
(***************************************************************************)
SameOutcome(x, y) == x.kind = y.kind /\ x.value = y.value

ReturnedBool(res, b) == res.kind = "return" /\ res.value = b

\* a verifySignature call made directly, with its three arguments
VerifyCalled == call.op = "verifySignature" /\ pc = "returned"

\* the signature of the last verifySignature call is an object {R8, S} of a
\* pair of integers and an integer
SigWellFormed == call.tag[2] \in {"strings", "bigints"}

\* the public key of the last verifySignature call is a pair of integers
KeyWellFormed == call.tag[3] \in {"derived", "order2", "offcurve"}

\* the message of the last verifySignature call is one checkMessage accepts
MessageValid == call.tag[1] \in ValidMessageKinds

\* C1: signMessage returns for every accepted private key and valid message,
\* and verifySignature(m, signMessage(k, m), derivePublicKey(k)) passes the
\* guards and returns true.
C1_RoundTrip ==
    /\ (call.op = "signMessage" /\ pc = "returned"
          /\ call.tag[1] \in ValidKeyKinds /\ call.tag[2] \in ValidMessageKinds)
       => result.kind = "return"
    /\ (call.op = "verifySignature" /\ pc = "chained")
       => /\ ~verifyRejects(call.args[2], call.args[3])
          /\ ReturnedBool(result, TRUE)

\* a signature with a nonzero nonce and challenge was signed and verified
C1_Witness ==
    /\ call.op = "verifySignature"
    /\ pc = "chained"
    /\ origin.op = "signMessage"
    /\ locals.r # 0
    /\ locals.hm % subOrder # 0
    /\ ReturnedBool(result, TRUE)

\* C2: verifySignature returns false, and does not throw, for a message that
\* checkMessage rejects while the signature and the public key are well
\* formed and in range.
C2_NeverThrows ==
    (VerifyCalled /\ ~MessageValid /\ SigWellFormed /\ KeyWellFormed
       /\ OnCurve(PointOf(call.args[2].v.R8)) /\ OnCurve(PointOf(call.args[3]))
       /\ BigInt(call.args[2].v.S) \in 0..(subOrder - 1))
    => ReturnedBool(result, FALSE)

\* C3: verifySignature returns true only if 0 <= S < subOrder and R8 and the
\* public key are on the curve, and it returns false whenever S is negative
\* or >= subOrder, R8 or the public key is off the curve, or either is
\* malformed.
C3_Acceptance ==
    VerifyCalled =>
        LET bad == \/ ~SigWellFormed
                   \/ ~KeyWellFormed
                   \/ ~OnCurve(PointOf(call.args[2].v.R8))
                   \/ ~OnCurve(PointOf(call.args[3]))
                   \/ BigInt(call.args[2].v.S) < 0
                   \/ BigInt(call.args[2].v.S) >= subOrder
        IN  /\ ReturnedBool(result, TRUE) => ~bad
            /\ bad => ReturnedBool(result, FALSE)

\* the signature of the last verifySignature call with its S replaced
WithS(sig, S) ==
    ObjV([R8 |-> sig.v.R8,
          S |-> IF sig.v.S.type = "bigint" THEN BigIntV(S) ELSE DecString(S)])

\* C4: if verifySignature(m, {R8, S}, A) returns true, then
\* verifySignature(m, {R8, S2}, A) returns false for every integer S2 # S.
C4_UniqueS ==
    (VerifyCalled /\ ReturnedBool(result, TRUE)) =>
        \A S2 \in SRange \ {BigInt(call.args[2].v.S)} :
            ReturnedBool(verifySignature(call.args[1],
                                         WithS(call.args[2], S2),
                                         call.args[3]), FALSE)

\* C5: the point A that signMessage(k, m) feeds to the challenge hash is the
\* point derivePublicKey(k) returns, in the current and in the legacy variant.
C5_DerivationStable ==
    (call.op = "signMessage" /\ pc = "returned" /\ result.kind = "return") =>
        /\ SameOutcome(derivePublicKey(call.args[1]), Ret(PointStrings(locals.A)))
        /\ SameOutcome(derivePublicKeyLegacy(call.args[1]),
                       Ret(PointStrings(locals.A)))

\* signMessage returned for a key whose public point is not the neutral one
C5_Witness ==
    /\ call.op = "signMessage"
    /\ pc = "returned"
    /\ result.kind = "return"
    /\ locals.A # Identity
    /\ locals.s # shiftRight(locals.s, 3)

\* the pruned, shifted scalar of a private key that checkPrivateKey accepts
PrunedShifted(privateKey) ==
    shiftRight(leBufferToBigInt(pruneBuffer(
        SubSeq(blake(checkPrivateKey(privateKey).value), 1, HalfLen))), 3)

\* C6: deriveSecretScalar(k) returns the pruned little-endian integer shifted
\* right by 3 bits, and derivePublicKey(k) is Base8 times exactly that value.
C6_ScalarIsShifted ==
    (call.op = "deriveSecretScalar" /\ result.kind = "return") =>
        /\ BigInt(result.value) = PrunedShifted(call.args[1])
        /\ SameOutcome(IF call.variant = "legacy"
                       THEN derivePublicKeyLegacy(call.args[1])
                       ELSE derivePublicKey(call.args[1]),
                       Ret(PointStrings(
                           mulPointEscalar(Base8, BigInt(result.value)).value)))

\* C7: packPublicKey returns for every point of the curve, and
\* unpackPublicKey of what it returns has the coordinates of the point.
C7_PackUnpack ==
    /\ (call.op = "packPublicKey" /\ pc = "returned"
          /\ call.tag \in {"strings", "bigints"})
       => result.kind = "return"
    /\ (call.op = "unpackPublicKey" /\ pc = "chained")
       => /\ result.kind = "return"
          /\ PointOf(result.value) = PointOf(origin.args[1])

\* a point with x above r >> 1, given as bigints, was packed and unpacked
C7_Witness ==
    /\ call.op = "unpackPublicKey"
    /\ pc = "chained"
    /\ origin.tag = "bigints"
    /\ PointOf(origin.args[1])[1] > shiftRight(FieldOrder, 1)
    /\ result.kind = "return"

C10_Identity ==
    identity.constructed =>
        /\ identity.privateKey.type = ctorArg.type
        /\ identity.privateKey.v = ctorArg.v
        /\ SameOutcome(deriveSecretScalar(ctorArg), Ret(identity.secretScalar))
        /\ SameOutcome(derivePublicKey(ctorArg), Ret(identity.publicKey))
        /\ SameOutcome(packPublicKey(identity.publicKey),
                       Ret(identity.packedPublicKey))
        /\ call.op = "instance.signMessage"
             => SameOutcome(result, signMessage(ctorArg, call.args[1]))
        /\ call.op = "instance.verifySignature"
             => SameOutcome(result,
                            verifySignature(call.args[1], call.args[2],
                                            derivePublicKey(ctorArg).value))

\* an instance verified its own signature
C10_Witness ==
    /\ identity.constructed
    /\ call.op = "instance.verifySignature"
    /\ call.tag[2] = "own"
    /\ ReturnedBool(result, TRUE)

=============================================================================
